---- MODULE Spec2Model ----
(***************************************************************************)
(* LinkedIn Bulk Resume Downloader: the page context (content.js: the      *)
(* orchestrator loop startBulkDownload, the InterceptState and the command *)
(* handler), the popup (popup.js: the Start/Stop/Debug buttons) and the    *)
(* background context (background.js, latest iteration: the serial         *)
(* download queue and the PDF tab watcher).                                *)
(*                                                                         *)
(* Every await of the JavaScript is a suspension point: the code between   *)
(* two awaits is one atomic action.  Consecutive awaits between which the  *)
(* code neither reads nor writes shared state are one position (pc).       *)
(***************************************************************************)
EXTENDS Integers, Sequences, FiniteSets, TLC

\* ---- bounds -------------------------------------------------------------
MaxCards == 2        \* candidates the page can list
MaxRuns == 2         \* startBulkDownload invocations
MaxTransfers == 3    \* DOWNLOAD_RESUME requests a client of the background sends
MaxWatches == 2      \* EXPECT_PDF_TAB requests a client of the background sends
MaxTabs == 1         \* new tabs the browser opens
MaxNewTabs == 2      \* new tabs the browser opens for the watcher on its own
MaxOpens == 1        \* window.open calls the page answers a click with
MaxAffix == 2        \* characters before and after the long run of a name
MaxShort == 3        \* characters of a short name
MaxNodes == 3        \* elements of a scanned document
RandomSteps == 2     \* values Math.random() takes
MaxLines == 53       \* lines a client of the background has logged
MaxElems == 2        \* elements of a page a file URL is looked for in
MaxMarks == 2        \* tested substrings one URL contains

Cands == 1..MaxCards
RunIds == 1..MaxRuns
NoCand == 0

VARIABLES
    \* page context (content.js)
    applicantCards,      \* the scanned list: a sequence of candidates
    stopRequested,       \* the cooperative stop flag
    runs,                \* one record per startBulkDownload invocation
    nRuns,               \* invocations so far
    interceptedUrl,      \* InterceptState.capturedUrl (NoCand = null)
    mainWorldDownloaded, \* InterceptState.transferCompletedInPageContext
    currentFilename,     \* window.__lbrd_currentFilename (NoCand = unset)
    mwFetches,           \* main-world fetches in flight, per url owner
    mwMsgs,              \* window messages in flight to onInterceptMessage
    nOpens,              \* window.open calls so far
    \* popup (popup.js)
    popup,               \* isRunning, the buttons
    popupDone,           \* a DONE event is in flight to the popup
    \* transport
    bgPresent,           \* the background context answers
    chan,                \* messages in flight, page context -> background
    unhandled,           \* a send's promise was rejected with no handler
    \* background context
    downloadQueue,
    isProcessingQueue,
    worker,              \* position of processQueue
    pendingPdfDownload,  \* the armed tab watch, or NoWatch
    captures,            \* handleNewTabUrl invocations in progress
    inflight,            \* host download calls started and not yet settled
    nextId,              \* transfers enqueued so far
    nWatches,            \* EXPECT_PDF_TAB requests handled so far
    watchExpired,        \* the timeout of the watch armed last has expired
    downloadState,       \* RunState, reported on GET_STATE
    nTabs,
    \* observation (history) variables
    saved,               \* candidates (file names) a file was saved for
    saves,               \* the files saved so far, per candidate
    stoppedInDelay,      \* runs Stop found in their inter-candidate delay
    enqLog,              \* transfer ids in enqueue order
    callLog,             \* transfer ids in host-call order (queue worker)
    hostFailed,          \* candidates whose host download reported an error
    gap,                 \* the spacing wait since the last transfer start
    nStarts,             \* host download calls started so far
    arrived,             \* the lines pushed to the log since its last reset
    \* the pure utilities, called on their own
    today,               \* the date new Date() reports, as characters
    candidateNames,      \* the names file names were asked for, in order
    filenames,           \* the file names built for them, in order
    dom,                 \* the document a scan runs on
    strategyCalls,       \* the discovery strategies the last scan invoked
    preview,             \* the page a file URL is looked for in
    pdfUrl               \* the element extractPdfUrl returned the URL of

pageVars == <<applicantCards, stopRequested, runs, nRuns, interceptedUrl,
              mainWorldDownloaded, currentFilename, mwFetches, mwMsgs,
              nOpens, stoppedInDelay>>
popupVars == <<popup, popupDone>>
bgVars == <<downloadQueue, isProcessingQueue, worker, pendingPdfDownload,
            captures, inflight, nextId, nWatches, watchExpired, nTabs, enqLog,
            callLog,
            hostFailed, gap, nStarts>>
utilVars == <<today, candidateNames, filenames, dom, strategyCalls, preview,
             pdfUrl>>
wire == <<chan, unhandled>>
relayVars == <<downloadState, arrived>>
saveVars == <<saved, saves>>
vars == <<pageVars, popupVars, bgPresent, wire, bgVars, relayVars, saveVars,
          utilVars>>

\* ---- helpers ------------------------------------------------------------
Prefix(n) == [k \in 1..n |-> k]

\* Math.random() takes the values k / RandomSteps, k \in RandomSource
RandomSource == 0..(RandomSteps - 1)

\* no setTimeout pending
NoTimer == -1

\* randomDelay(min, max): the milliseconds handed to setTimeout
RandomDelay(min, max, k) ==
    ((k * (max - min) * 1000) \div RandomSteps) + min * 1000

IdleRun == [pc |-> "idle", i |-> 0, total |-> 0, downloaded |-> 0,
            failed |-> 0, cand |-> NoCand, doneEvents |-> 0,
            url |-> NoCand, selected |-> {}, threw |-> {},
            resumedAfter |-> {}, timer |-> NoTimer]

NoWatch == [candidateName |-> NoCand, sourceTabId |-> -1, timeoutId |-> 0]

MidCandidate == {"selecting", "previewing", "failClose", "fetching",
                 "clicking", "awaitIntercept", "closing", "errClose"}

\* chrome.runtime.sendMessage to the background with no .catch: with no
\* receiver the returned promise is rejected and nothing handles it
Send(msgs) ==
    /\ chan' = IF bgPresent THEN chan \o msgs ELSE chan
    /\ unhandled' = (unhandled \/ ~bgPresent)

Msg(t, u, c) == [type |-> t, url |-> u, candidateName |-> c]

\* ---- background context: RunState and the relay (background.js) ----------

LogCapacity == 50

NoState == [running |-> FALSE, downloaded |-> 0, total |-> 0, failed |-> 0,
            lastCandidate |-> NoCand, logs |-> <<>>]

\* pushLog without the shift: the buffer grows without limit
PushLogUnbounded(logs, line) == Append(logs, line)

PushLog(logs, line) ==
    IF Len(logs) + 1 > LogCapacity
    THEN Tail(Append(logs, line))
    ELSE Append(logs, line)

\* a || b on numbers, and on names (NoCand: none)
Or(a, b) == IF a # 0 THEN a ELSE b

\* what notify() and the two lifecycle sends put on the wire
RelayMsg(t, run, name, text) ==
    [type |-> t, downloaded |-> run.downloaded, total |-> run.total,
     failed |-> run.failed, candidateName |-> name, message |-> text]

\* the lines the listener pushes for a message
Lines(m) ==
    CASE m.type = "DOWNLOAD_STARTED" -> << <<"started">> >>
      [] m.type = "DOWNLOAD_STOPPED" -> << <<"stopped">> >>
      [] m.type = "PROGRESS" ->
            IF m.candidateName # NoCand
            THEN << <<"downloaded", m.candidateName>> >> ELSE <<>>
      [] m.type = "DOWNLOAD_ERROR" -> << <<"failed", m.candidateName>> >>
      [] m.type = "LOG" -> << <<"log", m.message>> >>
      [] m.type = "DONE" -> << <<"done", m.downloaded, m.failed>> >>
      [] OTHER -> <<>>

RECURSIVE PushAll(_, _)
PushAll(logs, lines) ==
    IF lines = <<>> THEN logs
    ELSE PushAll(PushLog(logs, Head(lines)), Tail(lines))

\* the onMessage listener on RunState, one message
OnRelay(st, m) ==
    LET logged == [st EXCEPT !.logs =
                       PushAll(IF m.type = "DOWNLOAD_STARTED"
                               THEN <<>> ELSE st.logs, Lines(m))]
    IN CASE m.type = "DOWNLOAD_STARTED" ->
              [logged EXCEPT !.running = TRUE, !.total = Or(m.total, 0),
                             !.downloaded = 0, !.failed = 0]
         [] m.type = "DOWNLOAD_STOPPED" -> [logged EXCEPT !.running = FALSE]
         [] m.type = "PROGRESS" ->
              [logged EXCEPT !.downloaded = Or(m.downloaded, st.downloaded),
                             !.total = Or(m.total, st.total),
                             !.failed = Or(m.failed, st.failed),
                             !.lastCandidate = Or(m.candidateName, NoCand)]
         [] m.type = "DOWNLOAD_ERROR" ->
              [logged EXCEPT !.failed = Or(st.failed, 0) + 1]
         [] m.type = "DONE" ->
              [logged EXCEPT !.running = FALSE,
                             !.downloaded = Or(m.downloaded, st.downloaded),
                             !.total = Or(m.total, st.total),
                             !.failed = Or(m.failed, st.failed)]
         [] OTHER -> logged

RECURSIVE OnRelayAll(_, _)
OnRelayAll(st, msgs) ==
    IF msgs = <<>> THEN st
    ELSE OnRelayAll(OnRelay(st, Head(msgs)), Tail(msgs))

RECURSIVE ArrivedAll(_, _)
ArrivedAll(arr, msgs) ==
    IF msgs = <<>> THEN arr
    ELSE ArrivedAll((IF Head(msgs).type = "DOWNLOAD_STARTED"
                     THEN <<>> ELSE arr) \o Lines(Head(msgs)),
                    Tail(msgs))

\* the messages reach the listener in the order sent and each is handled to
\* its end: RunState after a message is that of handling all sent up to it
Relay(msgs) ==
    IF bgPresent
    THEN /\ downloadState' = OnRelayAll(downloadState, msgs)
         /\ arrived' = ArrivedAll(arrived, msgs)
    ELSE UNCHANGED relayVars

\* startBulkDownload between two awaits: what it notifies (the LOG lines it
\* writes on the way change nothing but the log and are left out)
Emitted(old, new) ==
    (IF old.pc = "idle"
     THEN <<RelayMsg("DOWNLOAD_STARTED", new, NoCand, 0)>> ELSE <<>>)
    \o (IF new.threw # old.threw
        THEN <<RelayMsg("DOWNLOAD_ERROR", new, old.cand, 0),
               RelayMsg("PROGRESS", new, NoCand, 0)>>
        ELSE <<>>)
    \o (IF \/ old.pc = "failClose"
           \/ /\ old.pc = "selecting"
              /\ new.failed # old.failed
              /\ new.threw = old.threw
        THEN <<RelayMsg("PROGRESS", new, NoCand, 0)>> ELSE <<>>)
    \o (IF new.downloaded # old.downloaded
        THEN <<RelayMsg("PROGRESS", new, old.cand, 0)>> ELSE <<>>)
    \o (IF new.pc = "done" /\ old.pc # "done"
        THEN <<RelayMsg("DONE", new, NoCand, 0),
               RelayMsg("DOWNLOAD_STOPPED", new, NoCand, 0)>>
        ELSE <<>>)

\* ---- page context: the orchestrator loop (content.js) --------------------

\* the for-loop's test, the stop check and the head of the body, or the exit
LoopHead(run, stop) ==
    IF run.i < Len(applicantCards) /\ ~stop
    THEN [run EXCEPT !.pc = "selecting",
                     !.cand = applicantCards[run.i + 1],
                     !.selected = @ \cup {applicantCards[run.i + 1]}]
    ELSE \* DONE and DOWNLOAD_STOPPED are sent, once each
         [run EXCEPT !.pc = "done", !.doneEvents = @ + 1]

\* i++ and the next iteration
Advance(run) == LoopHead([run EXCEPT !.i = @ + 1], stopRequested)

\* the end of the loop body: the inter-candidate delay unless last or stopped
Bottom(run, k) ==
    IF run.i < Len(applicantCards) - 1 /\ ~stopRequested
    THEN [run EXCEPT !.pc = "delay", !.timer = RandomDelay(0, 5, k)]
    ELSE Advance(run)

\* a missing control taken as fatal: startBulkDownload returns at once
SkipBottomReturns(run, k) == [run EXCEPT !.pc = "returned"]

\* the two early exits of the body: a delay unless last, then continue
SkipBottom(run, k) ==
    IF run.i < Len(applicantCards) - 1
    THEN [run EXCEPT !.pc = "delay", !.timer = RandomDelay(0, 3, k)]
    ELSE Advance(run)

\* failed++
CountFailed(run) == [run EXCEPT !.failed = @ + 1]

\* downloaded++, PROGRESS with the name, then the closing of the preview
CountDownloaded(run) == [run EXCEPT !.downloaded = @ + 1, !.pc = "closing"]

\* the candidates whose iteration a run has settled (either counter) so far
Processed(run) ==
    {c \in run.selected :
        c # run.cand \/ run.pc \in {"failClose", "closing", "errClose",
                                     "delay", "done"}}

FileSaved(c) ==
    /\ saved' = saved \cup {c}
    /\ saves' = [saves EXCEPT ![c] = @ + 1]

\* a run's record changes; a DONE it emits travels to the popup
SetRun(r, new) ==
    /\ runs' = [runs EXCEPT ![r] = new]
    /\ UNCHANGED stoppedInDelay
    /\ Relay(Emitted(runs[r], new))
    /\ popupDone' = IF new.pc = "done" /\ runs[r].pc # "done"
                    THEN TRUE ELSE popupDone

interceptVars == <<interceptedUrl, mainWorldDownloaded, currentFilename,
                   mwFetches, mwMsgs, nOpens>>

\* startBulkDownload up to its first await
StartBulkDownload(resumedAfter) ==
    /\ nRuns < MaxRuns
    /\ nRuns' = nRuns + 1
    /\ stopRequested' = FALSE
    /\ SetRun(nRuns + 1,
              LoopHead([IdleRun EXCEPT !.total = Len(applicantCards),
                                       !.resumedAfter = resumedAfter],
                       FALSE))
    /\ UNCHANGED <<applicantCards, interceptVars, wire, saveVars>>

\* await selectApplicant; await findResumeButton
Selecting(r) ==
    /\ runs[r].pc = "selecting"
    /\ \E found \in BOOLEAN, k \in RandomSource :
         IF found
         THEN /\ SetRun(r, [runs[r] EXCEPT !.pc = "previewing"])
         ELSE /\ SetRun(r, SkipBottom(CountFailed(runs[r]), k))
    /\ UNCHANGED <<applicantCards, stopRequested, nRuns, interceptVars,
                   popup, wire, saveVars>>

\* await humanClick(resumeBtn); sleep; await findDownloadButton; rsleep;
\* then EXPECT_PDF_TAB, extractPdfUrl and the choice of the strategy
Previewing(r) ==
    /\ runs[r].pc = "previewing"
    /\ \E found \in BOOLEAN, hasUrl \in BOOLEAN :
         IF ~found
         THEN /\ SetRun(r, [CountFailed(runs[r]) EXCEPT !.pc = "failClose"])
              /\ UNCHANGED <<wire, interceptVars>>
         ELSE /\ Send(<<Msg("EXPECT_PDF_TAB", NoCand, runs[r].cand)>>)
              /\ IF hasUrl
                 THEN /\ SetRun(r, [runs[r] EXCEPT !.pc = "fetching",
                                                   !.url = runs[r].cand])
                      /\ UNCHANGED interceptVars
                 ELSE \* startWindowOpenIntercept(name)
                      /\ SetRun(r, [runs[r] EXCEPT !.pc = "clicking"])
                      /\ interceptedUrl' = NoCand
                      /\ mainWorldDownloaded' = FALSE
                      /\ currentFilename' = runs[r].cand
                      /\ UNCHANGED <<mwFetches, mwMsgs, nOpens>>
    /\ UNCHANGED <<applicantCards, stopRequested, nRuns, popup, saveVars>>

\* download trigger not found: after closePreviewPopup, PROGRESS and continue
FailClose(r) ==
    /\ runs[r].pc = "failClose"
    /\ \E k \in RandomSource : SetRun(r, SkipBottom(runs[r], k))
    /\ UNCHANGED <<applicantCards, stopRequested, nRuns, interceptVars,
                   popup, wire, saveVars>>

\* await downloadViaFetch(url, name), then the counters
Fetching(r) ==
    /\ runs[r].pc = "fetching"
    /\ \E ok \in BOOLEAN :
         IF ok
         THEN /\ FileSaved(runs[r].cand)
              /\ UNCHANGED wire
         ELSE /\ Send(<<Msg("DOWNLOAD_RESUME", runs[r].url, runs[r].cand)>>)
              /\ UNCHANGED saveVars
    /\ SetRun(r, CountDownloaded(runs[r]))
    /\ UNCHANGED <<applicantCards, stopRequested, nRuns, interceptVars, popup>>

\* await humanClick(downloadBtn), the page not calling window.open
ClickDownload(r) ==
    /\ runs[r].pc = "clicking"
    /\ SetRun(r, [runs[r] EXCEPT !.pc = "awaitIntercept"])
    /\ UNCHANGED <<applicantCards, stopRequested, nRuns, interceptVars, popup,
                   wire, saveVars>>

\* await humanClick(downloadBtn), the page answering the click by window.open:
\* the injected hook posts the URL and starts its own fetch
ClickDownloadOpens(r) ==
    /\ runs[r].pc = "clicking"
    /\ nOpens < MaxOpens
    /\ SetRun(r, [runs[r] EXCEPT !.pc = "awaitIntercept"])
    /\ mwMsgs' = Append(mwMsgs, [kind |-> "intercepted", url |-> runs[r].cand])
    /\ mwFetches' = [mwFetches EXCEPT ![runs[r].cand] = @ + 1]
    /\ nOpens' = nOpens + 1
    /\ UNCHANGED <<applicantCards, stopRequested, nRuns, interceptedUrl,
                   mainWorldDownloaded, currentFilename, popup, wire,
                   saveVars>>

\* the injected hook's fetch settles: the blob is saved under the file name
\* current at that moment, and the outcome is posted to the content script
MainWorldFetchSettles(c) ==
    /\ mwFetches[c] > 0
    /\ mwFetches' = [mwFetches EXCEPT ![c] = @ - 1]
    /\ \E ok \in BOOLEAN :
         IF ok
         THEN /\ FileSaved(currentFilename)
              /\ mwMsgs' = Append(mwMsgs, [kind |-> "done", url |-> c])
         ELSE /\ mwMsgs' = Append(mwMsgs, [kind |-> "failed", url |-> c])
              /\ UNCHANGED saveVars
    /\ UNCHANGED <<applicantCards, stopRequested, runs, nRuns, interceptedUrl,
                   mainWorldDownloaded, currentFilename, nOpens,
                   stoppedInDelay, popup, popupDone, wire, relayVars>>

OnInterceptMessage ==
    /\ mwMsgs # <<>>
    /\ mwMsgs' = Tail(mwMsgs)
    /\ interceptedUrl' = IF Head(mwMsgs).kind = "intercepted"
                         THEN Head(mwMsgs).url ELSE interceptedUrl
    /\ mainWorldDownloaded' = IF Head(mwMsgs).kind = "done"
                              THEN TRUE ELSE mainWorldDownloaded
    /\ UNCHANGED <<applicantCards, stopRequested, runs, nRuns,
                   currentFilename, mwFetches, nOpens, stoppedInDelay, popup,
                   popupDone, wire, relayVars, saveVars>>

\* the message the hook posts inside window.open, during the click, has been
\* handled when the sleep of 1.5 to 3 seconds that follows the click is over
InterceptedDelivered ==
    \A k \in 1..Len(mwMsgs) : mwMsgs[k].kind # "intercepted"

\* checkInterceptResult whose captured URL is not used: without an in-page
\* download the candidate is left to the background tab watcher
CheckInterceptIgnoresUrl(r) ==
    /\ runs[r].pc = "awaitIntercept"
    /\ InterceptedDelivered
    /\ interceptedUrl' = NoCand
    /\ mainWorldDownloaded' = FALSE
    /\ SetRun(r, CountDownloaded(runs[r]))
    /\ UNCHANGED <<applicantCards, stopRequested, nRuns, currentFilename,
                   mwFetches, mwMsgs, nOpens, popup, wire, saveVars>>

\* after the sleep: checkInterceptResult and the branch on what it returned
CheckIntercept(r) ==
    /\ runs[r].pc = "awaitIntercept"
    /\ InterceptedDelivered
    /\ interceptedUrl' = NoCand
    /\ mainWorldDownloaded' = FALSE
    /\ IF mainWorldDownloaded
       THEN /\ SetRun(r, CountDownloaded(runs[r]))
       ELSE IF interceptedUrl # NoCand
       THEN /\ SetRun(r, [runs[r] EXCEPT !.pc = "fetching",
                                         !.url = interceptedUrl])
       ELSE \E postClickUrl \in BOOLEAN :
              IF postClickUrl
              THEN /\ SetRun(r, [runs[r] EXCEPT !.pc = "fetching",
                                                !.url = runs[r].cand])
              ELSE \* relying on the background tab watcher
                   /\ SetRun(r, CountDownloaded(runs[r]))
    /\ UNCHANGED <<applicantCards, stopRequested, nRuns, currentFilename,
                   mwFetches, mwMsgs, nOpens, popup, wire, saveVars>>

\* rsleep; await closePreviewPopup; rsleep; then the end of the body
Closing(r) ==
    /\ runs[r].pc = "closing"
    /\ \E k \in RandomSource : SetRun(r, Bottom(runs[r], k))
    /\ UNCHANGED <<applicantCards, stopRequested, nRuns, interceptVars,
                   popup, wire, saveVars>>

\* no try/catch around the body: the exception ends startBulkDownload
CatchRethrows(run) ==
    [run EXCEPT !.pc = "done", !.doneEvents = @ + 1,
                !.threw = @ \cup {run.cand}]

\* a catch block without closePreviewPopup: straight to the end of the body
CatchLeavesPreviewOpen(run) ==
    SkipBottom([CountFailed(run) EXCEPT !.threw = @ \cup {run.cand}], 0)

\* the catch block up to its await
Catch(run) ==
    [CountFailed(run) EXCEPT !.pc = "errClose", !.threw = @ \cup {run.cand}]

\* an awaited step inside the try block throws (selectApplicant, humanClick
\* and the button searches work on the live page; the sleeps and
\* closePreviewPopup have nothing that throws)
Throw(r) ==
    /\ runs[r].pc \in {"selecting", "previewing", "clicking"}
    /\ SetRun(r, Catch(runs[r]))
    /\ UNCHANGED <<applicantCards, stopRequested, nRuns, interceptVars,
                   popup, wire, saveVars>>

\* the catch block: await closePreviewPopup; rsleep; then the end of the body
ErrClose(r) ==
    /\ runs[r].pc = "errClose"
    /\ \E k \in RandomSource : SetRun(r, Bottom(runs[r], k))
    /\ UNCHANGED <<applicantCards, stopRequested, nRuns, interceptVars,
                   popup, wire, saveVars>>

\* the inter-candidate randomDelay elapses
Delay(r) ==
    /\ runs[r].pc = "delay"
    /\ SetRun(r, Advance([runs[r] EXCEPT !.timer = NoTimer]))
    /\ UNCHANGED <<applicantCards, stopRequested, nRuns, interceptVars,
                   popup, wire, saveVars>>

\* ---- popup (popup.js) and the commands it sends to messageHandler --------

Popup(running, startOff, stopOff, label) ==
    [isRunning |-> running, startDisabled |-> startOff,
     stopDisabled |-> stopOff, label |-> label]

\* SCAN_RESUMES / DEBUG_SCAN: scanApplicantCards replaces the list
ScanApplicantCards(n) == applicantCards' = Prefix(n)

\* the popup is opened: init() scans and sets the Start button (the content
\* script already injected stays the one that answers)
PopupInit(n) ==
    /\ ScanApplicantCards(n)
    /\ popup' = Popup(FALSE, n = 0, TRUE, "Start")
    /\ popupDone' = FALSE
    /\ UNCHANGED <<stopRequested, runs, nRuns, interceptVars, stoppedInDelay,
                   wire, relayVars, saveVars>>

\* the candidates processed before the Stop by the runs Stop found waiting
\* between two candidates and that still wait there
ProcessedBeforeStop ==
    UNION {Processed(runs[r]) :
               r \in {x \in stoppedInDelay : runs[x].pc = "delay"}}

BtnStartClick ==
    /\ ~popup.isRunning
    /\ ~popup.startDisabled
    /\ popup' = Popup(TRUE, TRUE, FALSE, "Running")
    /\ StartBulkDownload(IF popup.label = "Resume"
                         THEN ProcessedBeforeStop ELSE {})

BtnStopClick ==
    /\ ~popup.stopDisabled
    /\ popup' = Popup(FALSE, FALSE, TRUE, "Resume")
    /\ stopRequested' = TRUE
    /\ stoppedInDelay' =
           stoppedInDelay \cup {r \in RunIds : runs[r].pc = "delay"}
    /\ UNCHANGED <<applicantCards, runs, nRuns, interceptVars,
                   popupDone, wire, relayVars, saveVars>>

\* the popup's listener receives DONE
PopupOnDone ==
    /\ popupDone
    /\ popupDone' = FALSE
    /\ popup' = Popup(FALSE, TRUE, TRUE, "Complete")
    /\ UNCHANGED <<pageVars, wire, relayVars, saveVars>>

\* ---- background context (background.js, latest iteration) ---------------

SourceTab == 0
TabIds == 0..MaxTabs

\* triggerDownload: chrome.downloads.download is called; it settles later
TriggerDownload(src, id, cand) ==
    /\ inflight' = inflight \cup {[call |-> nStarts + 1, src |-> src,
                                     id |-> id, cand |-> cand]}
    /\ nStarts' = nStarts + 1
    /\ gap' = "none"

\* the newest item is taken instead of the oldest
ProcessQueueLifo(q, g) ==
    IF q # <<>>
    THEN /\ downloadQueue' = SubSeq(q, 1, Len(q) - 1)
         /\ isProcessingQueue' = TRUE
         /\ worker' = "download"
         /\ callLog' = Append(callLog, q[Len(q)].id)
         /\ TriggerDownload("queue", q[Len(q)].id, q[Len(q)].cand)
    ELSE /\ downloadQueue' = q
         /\ isProcessingQueue' = FALSE
         /\ worker' = "idle"
         /\ gap' = g
         /\ UNCHANGED <<callLog, inflight, nStarts>>

\* processQueue's loop test and the body up to await triggerDownload;
\* g: the spacing wait observed if no transfer starts
ProcessQueue(q, g) ==
    IF q # <<>>
    THEN /\ downloadQueue' = Tail(q)
         /\ isProcessingQueue' = TRUE
         /\ worker' = "download"
         /\ callLog' = Append(callLog, Head(q).id)
         /\ TriggerDownload("queue", Head(q).id, Head(q).cand)
    ELSE /\ downloadQueue' = q
         /\ isProcessingQueue' = FALSE
         /\ worker' = "idle"
         /\ gap' = g
         /\ UNCHANGED <<callLog, inflight, nStarts>>

\* isProcessingQueue is not consulted: every enqueue starts a worker loop
EnqueueDownloadAlwaysStarts(url, cand) ==
    /\ nextId' = nextId + 1
    /\ enqLog' = Append(enqLog, nextId + 1)
    /\ ProcessQueue(Append(downloadQueue,
                           [id |-> nextId + 1, url |-> url, cand |-> cand]),
                    gap)

EnqueueDownload(url, cand) ==
    /\ nextId' = nextId + 1
    /\ enqLog' = Append(enqLog, nextId + 1)
    /\ LET q == Append(downloadQueue,
                        [id |-> nextId + 1, url |-> url, cand |-> cand])
       IN IF ~isProcessingQueue
          THEN ProcessQueue(q, gap)
          ELSE /\ downloadQueue' = q
               /\ UNCHANGED <<isProcessingQueue, worker, callLog, inflight,
                              nStarts, gap>>

\* the onMessage listener
BgOnMessage(m) ==
    IF m.type = "DOWNLOAD_RESUME"
    THEN /\ EnqueueDownload(m.url, m.candidateName)
         /\ UNCHANGED <<pendingPdfDownload, captures, hostFailed, saveVars,
                        nWatches, watchExpired, nTabs>>
    ELSE \* EXPECT_PDF_TAB: clearPdfWatch, then arm with a fresh timeout
         /\ pendingPdfDownload' = [candidateName |-> m.candidateName,
                                    sourceTabId |-> SourceTab,
                                    timeoutId |-> nWatches + 1]
         /\ nWatches' = nWatches + 1
         /\ watchExpired' = FALSE
         /\ UNCHANGED <<downloadQueue, isProcessingQueue, worker, captures,
                        inflight, nextId, enqLog, callLog, hostFailed, gap,
                        nStarts, saveVars, nTabs>>

\* the captures whose triggerDownload call is d, made inside the try block:
\* its rejection is caught and the call is made once more
Retried(d, ok) == {c \in captures : c.call = d.call /\ c.inTry /\ ~ok}

\* no try/catch in processQueue: a rejected call ends the worker with
\* isProcessingQueue left set
HostSettlesNoCatch(d, ok) ==
    /\ d \in inflight
    /\ IF ok THEN FileSaved(d.cand) ELSE UNCHANGED saveVars
    /\ hostFailed' = IF ok THEN hostFailed ELSE hostFailed \cup {d.cand}
    /\ IF d.src = "queue"
       THEN /\ inflight' = inflight \ {d}
            /\ worker' = IF ok THEN "sleep" ELSE "idle"
            /\ gap' = IF gap = "none" /\ ok THEN "running" ELSE gap
            /\ UNCHANGED <<captures, nStarts>>
       ELSE IF Retried(d, ok) # {}
       THEN \* handleNewTabUrl's catch: triggerDownload again
            /\ captures' = (captures \ Retried(d, ok)) \cup
                               {[c EXCEPT !.call = nStarts + 1,
                                          !.inTry = FALSE] :
                                    c \in Retried(d, ok)}
            /\ inflight' = (inflight \ {d}) \cup
                               {[d EXCEPT !.call = nStarts + 1]}
            /\ nStarts' = nStarts + 1
            /\ gap' = "none"
            /\ UNCHANGED worker
       ELSE \* handleNewTabUrl ends
            /\ inflight' = inflight \ {d}
            /\ captures' = captures \ {c \in captures : c.call = d.call}
            /\ UNCHANGED <<worker, gap, nStarts>>
    /\ UNCHANGED <<downloadQueue, isProcessingQueue, pendingPdfDownload,
                   nextId, nWatches, watchExpired, nTabs, enqLog, callLog>>

\* the host download service answers a call: an identifier or an error
HostSettles(d, ok) ==
    /\ d \in inflight
    /\ IF ok THEN FileSaved(d.cand) ELSE UNCHANGED saveVars
    /\ hostFailed' = IF ok THEN hostFailed ELSE hostFailed \cup {d.cand}
    /\ IF d.src = "queue"
       THEN \* processQueue: (catch,) then await sleep(500)
            /\ inflight' = inflight \ {d}
            /\ worker' = "sleep"
            /\ gap' = IF gap = "none" THEN "running" ELSE gap
            /\ UNCHANGED <<captures, nStarts>>
       ELSE IF Retried(d, ok) # {}
       THEN \* handleNewTabUrl's catch: triggerDownload again
            /\ captures' = (captures \ Retried(d, ok)) \cup
                               {[c EXCEPT !.call = nStarts + 1,
                                          !.inTry = FALSE] :
                                    c \in Retried(d, ok)}
            /\ inflight' = (inflight \ {d}) \cup
                               {[d EXCEPT !.call = nStarts + 1]}
            /\ nStarts' = nStarts + 1
            /\ gap' = "none"
            /\ UNCHANGED worker
       ELSE \* handleNewTabUrl ends
            /\ inflight' = inflight \ {d}
            /\ captures' = captures \ {c \in captures : c.call = d.call}
            /\ UNCHANGED <<worker, gap, nStarts>>
    /\ UNCHANGED <<downloadQueue, isProcessingQueue, pendingPdfDownload,
                   nextId, nWatches, watchExpired, nTabs, enqLog, callLog>>

\* sleep(500) elapses: the loop test again
WorkerWake ==
    /\ worker = "sleep"
    /\ ProcessQueue(downloadQueue, IF gap = "running" THEN "done" ELSE gap)
    /\ UNCHANGED <<pendingPdfDownload, captures, nextId, nWatches,
                   watchExpired, nTabs,
                   enqLog, hostFailed, saveVars>>

\* handleNewTabUrl that leaves the watch armed after a capture
HandleNewTabUrlKeepsWatch(tabId, url) ==
    IF /\ pendingPdfDownload # NoWatch
       /\ url # "blank"
       /\ tabId # pendingPdfDownload.sourceTabId
    THEN /\ captures' = captures \cup
                {[cand |-> pendingPdfDownload.candidateName, tab |-> tabId,
                  url |-> url, watch |-> pendingPdfDownload.timeoutId,
                  call |-> 0, inTry |-> FALSE]}
         /\ UNCHANGED pendingPdfDownload
    ELSE UNCHANGED <<captures, pendingPdfDownload>>

\* handleNewTabUrl up to its first await: the three early returns, the
\* candidate name read from the watch, clearPdfWatch
HandleNewTabUrl(tabId, url) ==
    IF /\ pendingPdfDownload # NoWatch
       /\ url # "blank"
       /\ tabId # pendingPdfDownload.sourceTabId
    THEN /\ captures' = captures \cup
                {[cand |-> pendingPdfDownload.candidateName, tab |-> tabId,
                  url |-> url, watch |-> pendingPdfDownload.timeoutId,
                  call |-> 0, inTry |-> FALSE]}
         /\ pendingPdfDownload' = NoWatch
    ELSE UNCHANGED <<captures, pendingPdfDownload>>

\* chrome.tabs.onCreated, the browser having opened fewer than limit tabs
OnCreated(limit, url) ==
    /\ nTabs < limit
    /\ nTabs' = nTabs + 1
    /\ IF pendingPdfDownload # NoWatch /\ url # "blank"
       THEN HandleNewTabUrl(nTabs + 1, url)
       ELSE UNCHANGED <<captures, pendingPdfDownload>>
    /\ UNCHANGED <<downloadQueue, isProcessingQueue, worker, inflight, nextId,
                   nWatches, watchExpired, enqLog, callLog, hostFailed, gap,
                   nStarts, saveVars>>

\* chrome.tabs.onCreated: the browser opens a new tab
TabCreated(url) == OnCreated(MaxTabs, url)

\* chrome.tabs.onUpdated with changeInfo.url set
TabUpdated(tabId, url) ==
    /\ tabId \in 0..nTabs
    /\ pendingPdfDownload # NoWatch
    /\ HandleNewTabUrl(tabId, url)
    /\ UNCHANGED <<downloadQueue, isProcessingQueue, worker, inflight, nextId,
                   nWatches, watchExpired, nTabs, enqLog, callLog, hostFailed,
                   gap, nStarts,
                   saveVars>>

\* handleNewTabUrl after sleep(2000) and executeScript: the in-tab fetch
\* saved the file, or it did not (or executeScript threw) and the URL goes
\* straight to triggerDownload
CaptureScript(c, ok) ==
    /\ c \in captures
    /\ c.call = 0
    /\ IF ok
       THEN /\ FileSaved(c.cand)
            /\ captures' = captures \ {c}
            /\ UNCHANGED <<inflight, nStarts, gap>>
       ELSE \* the result is not ok (inside the try block) or executeScript
            \* threw (the catch block)
            /\ \E threw \in BOOLEAN :
                 captures' = (captures \ {c}) \cup
                                 {[c EXCEPT !.call = nStarts + 1,
                                            !.inTry = ~threw]}
            /\ TriggerDownload("tab", 0, c.cand)
            /\ UNCHANGED saveVars
    /\ UNCHANGED <<downloadQueue, isProcessingQueue, worker,
                   pendingPdfDownload, nextId, nWatches, watchExpired, nTabs,
                   enqLog,
                   callLog, hostFailed>>

\* the timeout callback leaves the watch armed
WatchTimeoutKeepsWatch ==
    /\ pendingPdfDownload # NoWatch
    /\ watchExpired' = TRUE
    /\ UNCHANGED <<downloadQueue, isProcessingQueue, worker, captures,
                   pendingPdfDownload, inflight, nextId, nWatches, nTabs,
                   enqLog, callLog, hostFailed, gap, nStarts, saveVars>>

\* the 30 s safety timeout of the watch: clearPdfWatch
WatchTimeout ==
    /\ pendingPdfDownload # NoWatch
    /\ pendingPdfDownload' = NoWatch
    /\ watchExpired' = TRUE
    /\ UNCHANGED <<downloadQueue, isProcessingQueue, worker, captures,
                   inflight, nextId, nWatches, nTabs, enqLog, callLog,
                   hostFailed, gap, nStarts, saveVars>>

\* ---- candidate-list discovery on a document (scanApplicantCards) ---------
\* A document is its elements 1..MaxNodes in document order, each with its
\* parent (0: the body) and the discovery queries it answers to.

Nodes == 1..MaxNodes
NoDom == [parent |-> <<>>, marks |-> <<>>]

\* the queries, in the order the scan makes them: the data-view-name
\* attribute, the componentkey marker with card-like text, the children of
\* the best list container, the list/listitem roles, the applicant links,
\* the descendants near the landmark heading
Strategies == <<"attribute", "marker", "container", "role", "anchor",
                "heading">>

RECURSIVE AncestorsOrSelf(_, _)
AncestorsOrSelf(parent, n) ==
    IF n = 0 THEN {} ELSE {n} \cup AncestorsOrSelf(parent, parent[n])

\* Node.contains: a is b or an ancestor of b
Contains(d, a, b) == a \in AncestorsOrSelf(d.parent, b)

\* querySelectorAll: the elements answering a query, in document order
Matching(d, mark) ==
    SelectSeq([n \in Nodes |-> n], LAMBDA n : mark \in d.marks[n])

InSeq(x, seq) == \E k \in DOMAIN seq : seq[k] = x

\* forEach: if (!found.has(el)) found.set(el, ...)
RECURSIVE AddAll(_, _)
AddAll(found, els) ==
    IF els = <<>> THEN found
    ELSE AddAll(IF InSeq(Head(els), found) THEN found
                ELSE Append(found, Head(els)),
                Tail(els))

\* the componentkey loop: an element is skipped when it is in found, or
\* contains or is contained in an element of found
RECURSIVE AddUnrelated(_, _, _)
AddUnrelated(d, found, els) ==
    IF els = <<>> THEN found
    ELSE LET el == Head(els)
             isDuplicate == \E k \in DOMAIN found :
                               \/ Contains(d, found[k], el)
                               \/ Contains(d, el, found[k])
         IN AddUnrelated(d,
                         IF InSeq(el, found) \/ isDuplicate THEN found
                         ELSE Append(found, el),
                         Tail(els))

\* "Strategy 1" of the code: both queries, always
FoundFirst(d) ==
    AddUnrelated(d, AddAll(<<>>, Matching(d, "attribute")),
                 Matching(d, "marker"))

\* found after the strategies up to the k-th query (k >= 2): a later one
\* runs if (found.size === 0)
RECURSIVE FoundUpTo(_, _)
FoundUpTo(d, k) ==
    IF k = 2 THEN FoundFirst(d)
    ELSE LET before == FoundUpTo(d, k - 1)
         IN IF before = <<>>
            THEN AddAll(<<>>, Matching(d, Strategies[k]))
            ELSE before

\* the queries a scan makes
Invoked(d) ==
    {"attribute", "marker"} \cup
    {Strategies[k] : k \in {j \in 3..Len(Strategies) :
                                FoundUpTo(d, j - 1) = <<>>}}

\* the de-duplication pass: an element containing another found one goes
Deduplicate(d, found) ==
    SelectSeq(found,
              LAMBDA a : ~\E k \in DOMAIN found :
                            found[k] # a /\ Contains(d, a, found[k]))

\* scanApplicantCards on a document
ScanDocument(d) ==
    /\ applicantCards' = Deduplicate(d, FoundUpTo(d, Len(Strategies)))
    /\ strategyCalls' = Invoked(d)

\* ---- the file-URL resolution (extractPdfUrl) -----------------------------
\* A URL is the set of the tested substrings it contains; the empty URL (no
\* src, data or href) contains none of them.
FileMarkers == {".pdf", "mediaauth", "resume", "dms/"}
NavMarkers == {"/hiring/", "/jobs/", "/in/"}

\* url.includes(s)
Includes(url, s) == s \in url

\* an element of the page: its tag, whether it lies in a dialog,
\* presentation, modal or overlay container, and its src, data or href
Tags == {"iframe", "embed", "object", "a"}

NotCalled == -1      \* extractPdfUrl has not run
NoUrl == 0           \* extractPdfUrl returned null

\* the first element, in document order, of a set of elements
FirstOf(S) == IF S = {} THEN NoUrl ELSE CHOOSE k \in S : \A j \in S : k <= j

\* 1. the iframe sources
FromIframe(p) ==
    FirstOf({k \in DOMAIN p :
                /\ p[k].tag = "iframe"
                /\ \/ Includes(p[k].url, ".pdf")
                   \/ Includes(p[k].url, "mediaauth")
                   \/ Includes(p[k].url, "resume")
                   \/ Includes(p[k].url, "dms/")})

\* 2. the embed elements
FromEmbed(p) ==
    FirstOf({k \in DOMAIN p :
                /\ p[k].tag = "embed"
                /\ \/ Includes(p[k].url, ".pdf")
                   \/ Includes(p[k].url, "mediaauth")
                   \/ Includes(p[k].url, "resume")})

\* 3. the object elements
FromObject(p) ==
    FirstOf({k \in DOMAIN p :
                /\ p[k].tag = "object"
                /\ \/ Includes(p[k].url, ".pdf")
                   \/ Includes(p[k].url, "mediaauth")
                   \/ Includes(p[k].url, "resume")})

\* 4. the anchors in a modal or dialog
FromModalAnchor(p) ==
    FirstOf({k \in DOMAIN p :
                /\ p[k].tag = "a"
                /\ p[k].inModal
                /\ \/ Includes(p[k].url, ".pdf")
                   \/ Includes(p[k].url, "mediaauth")
                   \/ Includes(p[k].url, "dms/")})

\* 5. any anchor of the page
FromPageAnchor(p) ==
    FirstOf({k \in DOMAIN p :
                /\ p[k].tag = "a"
                /\ \/ Includes(p[k].url, ".pdf")
                   \/ Includes(p[k].url, "mediaauth")
                /\ ~Includes(p[k].url, "/hiring/")
                /\ ~Includes(p[k].url, "/jobs/")
                /\ ~Includes(p[k].url, "/in/")})

\* extractPdfUrl: the element whose URL is returned, NoUrl for null
ExtractPdfUrl(p) ==
    IF FromIframe(p) # NoUrl THEN FromIframe(p)
    ELSE IF FromEmbed(p) # NoUrl THEN FromEmbed(p)
    ELSE IF FromObject(p) # NoUrl THEN FromObject(p)
    ELSE IF FromModalAnchor(p) # NoUrl THEN FromModalAnchor(p)
    ELSE FromPageAnchor(p)

\* extractPdfUrl is called on the page
CallExtractPdfUrl ==
    /\ pdfUrl = NotCalled
    /\ pdfUrl' = ExtractPdfUrl(preview)
    /\ UNCHANGED <<today, candidateNames, filenames, dom, strategyCalls,
                   preview>>

\* ---- the file name builders (buildFilename, buildDownloadFilename) --------
\* A string is a sequence of one-character strings.

Placeholder == <<"U", "n", "k", "n", "o", "w", "n", "_",
                 "C", "a", "n", "d", "i", "d", "a", "t", "e">>
ResumeTag == <<"_", "R", "e", "s", "u", "m", "e", "_">>
PdfExt == <<".", "p", "d", "f">>
NameLimit == 80

\* the character classes of the regular expressions: \s, and [\w\-]
Whitespace == {" "}
WordOrHyphen == {"U", "n", "k", "o", "w", "C", "a", "d", "i", "t", "e",
                 "b", "7", "_", "-"}

\* String.prototype.trim
Trim(s) ==
    LET inked == {k \in DOMAIN s : s[k] \notin Whitespace}
    IN IF inked = {} THEN <<>>
       ELSE SubSeq(s, CHOOSE k \in inked : \A j \in inked : k <= j,
                      CHOOSE k \in inked : \A j \in inked : j <= k)

\* replace(/\s+/g, "_"): every maximal run of whitespace becomes one "_"
\* (the last character of a run stands for the run)
CollapseWhitespace(s) ==
    LET kept == SelectSeq([k \in DOMAIN s |-> k],
                          LAMBDA k : \/ s[k] \notin Whitespace
                                     \/ k = Len(s)
                                     \/ s[k + 1] \notin Whitespace)
    IN [j \in DOMAIN kept |->
           IF s[kept[j]] \in Whitespace THEN "_" ELSE s[kept[j]]]

\* replace(/[^\w\-]/g, "")
StripUnsafe(s) == SelectSeq(s, LAMBDA c : c \in WordOrHyphen)

\* the cut is forgotten
SubstringUncut(s, n) == s

\* substring(0, n)
Substring(s, n) == SubSeq(s, 1, IF Len(s) < n THEN Len(s) ELSE n)

\* the sanitising chain both builders share, the placeholder included
SafeName(candidateName) ==
    LET given == IF candidateName = <<>> THEN Placeholder ELSE candidateName
        safe == Substring(StripUnsafe(CollapseWhitespace(Trim(given))),
                          NameLimit)
    IN IF safe = <<>> THEN Placeholder ELSE safe

\* page context: sanitiseName, applied to every name read off a card
SanitiseName(raw) ==
    LET safe == Substring(StripUnsafe(CollapseWhitespace(Trim(raw))),
                          NameLimit)
    IN IF safe = <<>> THEN Placeholder ELSE safe

\* background: buildFilename
BuildFilename(candidateName, ts) ==
    SafeName(candidateName) \o ResumeTag \o ts \o PdfExt

\* buildDownloadFilename without trim(): whitespace at either end of the
\* name becomes an underscore
BuildDownloadFilenameUntrimmed(candidateName, ts) ==
    LET given == IF candidateName = <<>> THEN Placeholder ELSE candidateName
        safe == Substring(StripUnsafe(CollapseWhitespace(given)), NameLimit)
    IN (IF safe = <<>> THEN Placeholder ELSE safe)
           \o ResumeTag \o ts \o PdfExt

\* page context: buildDownloadFilename
BuildDownloadFilename(candidateName, ts) ==
    SafeName(candidateName) \o ResumeTag \o ts \o PdfExt

\* buildFilename is called for a name
CallBuildFilename(name) ==
    /\ candidateNames' = Append(candidateNames, name)
    /\ filenames' = Append(filenames, BuildFilename(name, today))
    /\ UNCHANGED <<today, dom, strategyCalls, preview, pdfUrl>>

\* buildDownloadFilename is called for a name
CallBuildDownloadFilename(name) ==
    /\ candidateNames' = Append(candidateNames, name)
    /\ filenames' = Append(filenames, BuildDownloadFilename(name, today))
    /\ UNCHANGED <<today, dom, strategyCalls, preview, pdfUrl>>

\* ---- the specifications --------------------------------------------------

\* everything but the scanned list and the popup's buttons
InitRest ==
    /\ stopRequested = FALSE
    /\ runs = [r \in RunIds |-> IdleRun]
    /\ nRuns = 0
    /\ interceptedUrl = NoCand
    /\ mainWorldDownloaded = FALSE
    /\ currentFilename = NoCand
    /\ mwFetches = [c \in Cands |-> 0]
    /\ mwMsgs = <<>>
    /\ nOpens = 0
    /\ stoppedInDelay = {}
    /\ popupDone = FALSE
    /\ chan = <<>>
    /\ unhandled = FALSE
    /\ downloadQueue = <<>>
    /\ isProcessingQueue = FALSE
    /\ worker = "idle"
    /\ pendingPdfDownload = NoWatch
    /\ captures = {}
    /\ inflight = {}
    /\ nextId = 0
    /\ nWatches = 0
    /\ watchExpired = FALSE
    /\ downloadState = NoState
    /\ arrived = <<>>
    /\ nTabs = 0
    /\ saved = {}
    /\ saves = [c \in Cands |-> 0]
    /\ enqLog = <<>>
    /\ callLog = <<>>
    /\ hostFailed = {}
    /\ gap = "none"
    /\ nStarts = 0

\* no utility called on its own
InitUtilIdle ==
    /\ today = <<>>
    /\ candidateNames = <<>>
    /\ filenames = <<>>
    /\ dom = NoDom
    /\ strategyCalls = {}
    /\ preview = <<>>
    /\ pdfUrl = NotCalled

\* nothing scanned yet, the popup not yet opened
InitCommon ==
    /\ applicantCards = <<>>
    /\ popup = Popup(FALSE, TRUE, TRUE, "Start")
    /\ InitRest
    /\ InitUtilIdle

bgFrame == UNCHANGED <<bgVars, bgPresent, utilVars>>
pageFrame ==
    UNCHANGED <<pageVars, popupVars, bgPresent, wire, relayVars, utilVars>>

\* the page context under the popup's Start and Stop commands: the page does
\* not call window.open and nothing answers in the background
InitPage == InitCommon /\ bgPresent = FALSE

NextPage ==
    \/ (\E n \in 0..MaxCards : PopupInit(n)) /\ bgFrame
    \/ BtnStartClick /\ bgFrame
    \/ BtnStopClick /\ bgFrame
    \/ PopupOnDone /\ bgFrame
    \/ (\E r \in RunIds : Selecting(r)) /\ bgFrame
    \/ (\E r \in RunIds : Previewing(r)) /\ bgFrame
    \/ (\E r \in RunIds : FailClose(r)) /\ bgFrame
    \/ (\E r \in RunIds : Fetching(r)) /\ bgFrame
    \/ (\E r \in RunIds : ClickDownload(r)) /\ bgFrame
    \/ (\E r \in RunIds : CheckIntercept(r)) /\ bgFrame
    \/ (\E r \in RunIds : Closing(r)) /\ bgFrame
    \/ (\E r \in RunIds : Throw(r)) /\ bgFrame
    \/ (\E r \in RunIds : ErrClose(r)) /\ bgFrame
    \/ (\E r \in RunIds : Delay(r)) /\ bgFrame

SpecPage == InitPage /\ [][NextPage]_vars

\* the background context under any client
InitBg == InitCommon /\ bgPresent = TRUE

ClientDownloadResume(c) ==
    /\ nextId < MaxTransfers
    /\ BgOnMessage(Msg("DOWNLOAD_RESUME", c, c))

ClientExpectPdfTab(c) ==
    /\ nWatches < MaxWatches
    /\ BgOnMessage(Msg("EXPECT_PDF_TAB", NoCand, c))

UrlKinds == {"blank", "url"}

NextBg ==
    \/ (\E c \in Cands : ClientDownloadResume(c)) /\ pageFrame
    \/ (\E c \in Cands : ClientExpectPdfTab(c)) /\ pageFrame
    \/ (\E d \in inflight, ok \in BOOLEAN : HostSettles(d, ok)) /\ pageFrame
    \/ WorkerWake /\ pageFrame
    \/ (\E u \in UrlKinds : TabCreated(u)) /\ pageFrame
    \/ (\E t \in TabIds, u \in UrlKinds : TabUpdated(t, u)) /\ pageFrame
    \/ (\E c \in captures, ok \in BOOLEAN : CaptureScript(c, ok)) /\ pageFrame
    \/ WatchTimeout /\ pageFrame

SpecBg == InitBg /\ [][NextBg]_vars

\* the tab watcher on its own: a client arms it, the browser opens and
\* navigates tabs, the host answers the download calls
NextWatch ==
    \/ (\E c \in Cands : ClientExpectPdfTab(c)) /\ pageFrame
    \/ (\E u \in UrlKinds : OnCreated(MaxNewTabs, u)) /\ pageFrame
    \/ (\E t \in 0..MaxNewTabs, u \in UrlKinds : TabUpdated(t, u))
           /\ pageFrame
    \/ (\E c \in captures, ok \in BOOLEAN : CaptureScript(c, ok)) /\ pageFrame
    \/ (\E d \in inflight, ok \in BOOLEAN : HostSettles(d, ok)) /\ pageFrame
    \/ WatchTimeout /\ pageFrame

SpecWatch == InitBg /\ [][NextWatch]_vars

\* one uninterrupted run, end to end: the popup has scanned the page, the
\* user presses Start and leaves the popup alone; the background answers
InitE2E ==
    /\ InitRest
    /\ InitUtilIdle
    /\ \E n \in 1..MaxCards :
         /\ applicantCards = Prefix(n)
         /\ popup = Popup(FALSE, FALSE, TRUE, "Start")
    /\ bgPresent = TRUE

\* the background's listener takes the next message
Deliver ==
    /\ chan # <<>>
    /\ chan' = Tail(chan)
    /\ UNCHANGED unhandled
    /\ BgOnMessage(Head(chan))
    /\ UNCHANGED <<pageVars, popupVars, bgPresent, relayVars, utilVars>>

NextE2E ==
    \/ BtnStartClick /\ bgFrame
    \/ PopupOnDone /\ bgFrame
    \/ (\E r \in RunIds : Selecting(r)) /\ bgFrame
    \/ (\E r \in RunIds : Previewing(r)) /\ bgFrame
    \/ (\E r \in RunIds : FailClose(r)) /\ bgFrame
    \/ (\E r \in RunIds : Fetching(r)) /\ bgFrame
    \/ (\E r \in RunIds : ClickDownload(r)) /\ bgFrame
    \/ (\E r \in RunIds : ClickDownloadOpens(r)) /\ bgFrame
    \/ (\E c \in Cands : MainWorldFetchSettles(c)) /\ bgFrame
    \/ OnInterceptMessage /\ bgFrame
    \/ (\E r \in RunIds : CheckIntercept(r)) /\ bgFrame
    \/ (\E r \in RunIds : Closing(r)) /\ bgFrame
    \/ (\E r \in RunIds : Throw(r)) /\ bgFrame
    \/ (\E r \in RunIds : ErrClose(r)) /\ bgFrame
    \/ (\E r \in RunIds : Delay(r)) /\ bgFrame
    \/ Deliver
    \/ (\E d \in inflight, ok \in BOOLEAN : HostSettles(d, ok)) /\ pageFrame
    \/ WorkerWake /\ pageFrame
    \/ (\E u \in UrlKinds : TabCreated(u)) /\ pageFrame
    \/ (\E t \in TabIds, u \in UrlKinds : TabUpdated(t, u)) /\ pageFrame
    \/ (\E c \in captures, ok \in BOOLEAN : CaptureScript(c, ok)) /\ pageFrame
    \/ WatchTimeout /\ pageFrame

SpecE2E == InitE2E /\ [][NextE2E]_vars

\* the background with its timers firing and the host answering every call
SpecBgFair ==
    /\ SpecBg
    /\ WF_vars(WorkerWake /\ pageFrame)
    /\ WF_vars((\E d \in inflight, ok \in BOOLEAN : HostSettles(d, ok))
                 /\ pageFrame)

\* one uninterrupted run in the page on its own: the list is scanned, Start is
\* pressed once and the popup is left alone; what the run sends stays queued
InitRun == InitE2E

\* the step of startBulkDownload that follows the await a run is stopped at
RunStep ==
    \E r \in RunIds :
        \/ Selecting(r)
        \/ Previewing(r)
        \/ FailClose(r)
        \/ Fetching(r)
        \/ ClickDownload(r)
        \/ CheckIntercept(r)
        \/ Closing(r)
        \/ ErrClose(r)
        \/ Delay(r)

NextRun ==
    \/ BtnStartClick /\ bgFrame
    \/ PopupOnDone /\ bgFrame
    \/ RunStep /\ bgFrame
    \/ (\E r \in RunIds : ClickDownloadOpens(r)) /\ bgFrame
    \/ (\E c \in Cands : MainWorldFetchSettles(c)) /\ bgFrame
    \/ OnInterceptMessage /\ bgFrame
    \/ (\E r \in RunIds : Throw(r)) /\ bgFrame

\* every await of the loop settles: the sleeps are timers, the element polls
\* return at their timeout at the latest, downloadViaFetch never throws; the
\* messages posted to the window are dispatched
SpecRun ==
    /\ InitRun
    /\ [][NextRun]_vars
    /\ WF_vars(RunStep /\ bgFrame)
    /\ WF_vars(OnInterceptMessage /\ bgFrame)

\* a session on a scanned list with the background answering: the user
\* presses Start, Stop and Resume while the popup stays open
InitSession == InitE2E

NextSession ==
    \/ BtnStartClick /\ bgFrame
    \/ BtnStopClick /\ bgFrame
    \/ PopupOnDone /\ bgFrame
    \/ RunStep /\ bgFrame
    \/ (\E r \in RunIds : Throw(r)) /\ bgFrame

SpecSession == InitSession /\ [][NextSession]_vars

\* the background's RunState under a client that logs line after line and
\* announces a run now and then
InitLog == InitCommon /\ bgPresent = TRUE

relayFrame ==
    UNCHANGED <<pageVars, popupVars, bgPresent, wire, bgVars, saveVars,
                utilVars>>

\* log(msg): the message is the text, here the number of the line
ClientLog ==
    /\ Len(arrived) < MaxLines
    /\ Relay(<<RelayMsg("LOG", IdleRun, NoCand, Len(arrived) + 1)>>)

ClientDownloadStarted(total) ==
    Relay(<<RelayMsg("DOWNLOAD_STARTED", [IdleRun EXCEPT !.total = total],
                     NoCand, 0)>>)

NextLog ==
    \/ ClientLog /\ relayFrame
    \/ (\E n \in 0..MaxCards : ClientDownloadStarted(n)) /\ relayFrame

SpecLog == InitLog /\ [][NextLog]_vars

\* ---- the file name builders on their own ---------------------------------

SeqsUpTo(S, n) == UNION {[1..k -> S] : k \in 0..n}
Rep(c, k) == [i \in 1..k |-> c]

\* a letter, whitespace, punctuation, the hyphen and the underscore
NameChars == {"a", " ", "!", "-", "_"}

ShortNames == SeqsUpTo(NameChars, MaxShort)

\* names around the 80-character cut: a long run of one character between
\* two short affixes
LongNames ==
    {pre \o Rep(c, k) \o post :
        pre \in SeqsUpTo(NameChars, MaxAffix),
        post \in SeqsUpTo(NameChars, MaxAffix),
        c \in NameChars,
        k \in {NameLimit - 1, NameLimit, NameLimit + 1}}

\* a candidate whose display name is the placeholder's own text
UnknownCandidateNames ==
    {Placeholder,
     <<"U", "n", "k", "n", "o", "w", "n", " ",
       "C", "a", "n", "d", "i", "d", "a", "t", "e">>}

NameInputs == ShortNames \cup LongNames \cup UnknownCandidateNames

Dates == {<<"2", "0", "2", "6", "-", "1", "1", "-", "0", "1">>,
          <<"1", "9", "9", "9", "-", "1", "2", "-", "3", "1">>}

InitFilename ==
    /\ applicantCards = <<>>
    /\ popup = Popup(FALSE, TRUE, TRUE, "Start")
    /\ InitRest
    /\ bgPresent = TRUE
    /\ today \in Dates
    /\ candidateNames = <<>>
    /\ filenames = <<>>
    /\ dom = NoDom
    /\ strategyCalls = {}
    /\ preview = <<>>
    /\ pdfUrl = NotCalled

utilFrame ==
    UNCHANGED <<stopRequested, runs, nRuns, interceptVars, stoppedInDelay,
                popupVars, bgPresent, wire, bgVars, relayVars, saveVars>>

\* one file name is built, by either builder, for any name
NextFilename ==
    \/ /\ candidateNames = <<>>
       /\ \E name \in NameInputs : CallBuildFilename(name)
       /\ UNCHANGED applicantCards
       /\ utilFrame
    \/ /\ candidateNames = <<>>
       /\ \E name \in NameInputs : CallBuildDownloadFilename(name)
       /\ UNCHANGED applicantCards
       /\ utilFrame

SpecFilename == InitFilename /\ [][NextFilename]_vars

\* two file names are built on the same day, for short names
NextTwoFilenames ==
    \/ /\ Len(candidateNames) < 2
       /\ \E name \in ShortNames \cup UnknownCandidateNames :
              CallBuildFilename(name)
       /\ UNCHANGED applicantCards
       /\ utilFrame
    \/ /\ Len(candidateNames) < 2
       /\ \E name \in ShortNames \cup UnknownCandidateNames :
              CallBuildDownloadFilename(name)
       /\ UNCHANGED applicantCards
       /\ utilFrame

SpecTwoFilenames == InitFilename /\ [][NextTwoFilenames]_vars

\* one name goes through the page's builder, through the background's
\* builder, and through the background's builder after sanitiseName
NextSameName ==
    \/ /\ candidateNames = <<>>
       /\ \E name \in NameInputs : CallBuildDownloadFilename(name)
       /\ UNCHANGED applicantCards
       /\ utilFrame
    \/ /\ Len(candidateNames) = 1
       /\ CallBuildFilename(candidateNames[1])
       /\ UNCHANGED applicantCards
       /\ utilFrame
    \/ /\ Len(candidateNames) = 2
       /\ CallBuildFilename(SanitiseName(candidateNames[1]))
       /\ UNCHANGED applicantCards
       /\ utilFrame

SpecSameName == InitFilename /\ [][NextSameName]_vars

\* ---- candidate-list discovery on its own ---------------------------------

\* document order: an element's parent is the element before it or one of
\* that element's ancestors, or the body
Parents ==
    {p \in [Nodes -> 0..(MaxNodes - 1)] :
        /\ p[1] = 0
        /\ \A n \in Nodes \ {1} :
               p[n] = 0 \/ p[n] \in AncestorsOrSelf(p, n - 1)}

\* what an element can answer to: nothing, one query, or the first two
MarkSets ==
    {{}} \cup {{Strategies[k]} : k \in DOMAIN Strategies}
         \cup {{"attribute", "marker"}}

Documents == [parent : Parents, marks : [Nodes -> MarkSets]]

InitScan ==
    /\ applicantCards = <<>>
    /\ popup = Popup(FALSE, TRUE, TRUE, "Start")
    /\ InitRest
    /\ bgPresent = TRUE
    /\ today = <<>>
    /\ candidateNames = <<>>
    /\ filenames = <<>>
    /\ dom \in Documents
    /\ strategyCalls = {}
    /\ preview = <<>>
    /\ pdfUrl = NotCalled

\* SCAN_RESUMES on the document
NextScan ==
    /\ strategyCalls = {}
    /\ ScanDocument(dom)
    /\ UNCHANGED <<today, candidateNames, filenames, dom, preview, pdfUrl>>
    /\ utilFrame

SpecScan == InitScan /\ [][NextScan]_vars

\* ---- the file-URL resolution on its own ----------------------------------
Urls ==
    {u \in SUBSET (FileMarkers \cup NavMarkers) : Cardinality(u) <= MaxMarks}

Elements ==
    {e \in [tag : Tags, inModal : BOOLEAN, url : Urls] :
        e.inModal => e.tag = "a"}

Previews == UNION {[1..n -> Elements] : n \in 0..MaxElems}

InitUrl ==
    /\ applicantCards = <<>>
    /\ popup = Popup(FALSE, TRUE, TRUE, "Start")
    /\ InitRest
    /\ bgPresent = TRUE
    /\ today = <<>>
    /\ candidateNames = <<>>
    /\ filenames = <<>>
    /\ dom = NoDom
    /\ strategyCalls = {}
    /\ preview \in Previews
    /\ pdfUrl = NotCalled

\* the file URL is looked for once on the page
NextUrl ==
    /\ CallExtractPdfUrl
    /\ UNCHANGED applicantCards
    /\ utilFrame

SpecUrl == InitUrl /\ [][NextUrl]_vars

\* ---- properties ---------------------------------------------------------

Range(f) == {f[k] : k \in DOMAIN f}

\* nothing is in flight anywhere: every message, fetch, transfer and watch
\* has been dealt with
Quiescent ==
    /\ chan = <<>>
    /\ mwMsgs = <<>>
    /\ \A c \in Cands : mwFetches[c] = 0
    /\ downloadQueue = <<>>
    /\ inflight = {}
    /\ captures = {}
    /\ pendingPdfDownload = NoWatch
    /\ worker = "idle"

\* C1: at no time are two candidates being processed concurrently in the
\* page context, whatever commands the popup sends.
OneCandidateAtATime ==
    Cardinality({r \in RunIds : runs[r].pc \in MidCandidate}) <= 1

\* C2: when the processing of candidate k throws, the failed count includes
\* k, and the run ends only after every candidate k+1..N has been selected
\* and processed.
ThrowDoesNotAbortRun ==
    \A r \in RunIds :
        /\ Cardinality(runs[r].threw) <= runs[r].failed
        /\ runs[r].pc = "done" =>
               \A k \in runs[r].threw :
                   \A j \in (k + 1)..Len(applicantCards) :
                       applicantCards[j] \in Processed(runs[r])

\* a finished run over two candidates whose first threw and whose second
\* was then processed and its file saved
ThrowThenNextProcessed ==
    \E r \in RunIds :
        /\ runs[r].pc = "done"
        /\ Len(applicantCards) = 2
        /\ runs[r].threw = {1}
        /\ runs[r].failed = 1
        /\ runs[r].downloaded = 1
        /\ 2 \in saved

\* C3: a run that Stop finds between two candidates (in its inter-candidate
\* delay) selects no further candidate, it only ends, and it emits its done
\* event exactly once.
StopBetweenCandidatesEndsRun ==
    \A r \in RunIds :
        /\ runs[r].doneEvents <= 1
        /\ runs[r].pc = "done" => runs[r].doneEvents = 1
        /\ r \in stoppedInDelay => runs[r].pc \in {"delay", "done"}

\* C4: at most one host download call is in flight in the background.
OneTransferInFlight == Cardinality(inflight) <= 1

\* C5: every enqueued transfer gets exactly one host download call,
\* eventually: none is called twice, none that was not enqueued is called,
\* and each one enqueued is eventually called.
EveryTransferCalledOnce ==
    /\ [](\A a, b \in DOMAIN callLog : a # b => callLog[a] # callLog[b])
    /\ [](Range(callLog) \subseteq Range(enqLog))
    /\ \A id \in 1..MaxTransfers :
           (id \in Range(enqLog)) ~> (id \in Range(callLog))

\* a transfer waits in the queue behind the sleeping worker, after an earlier
\* transfer's host call failed
QueuedBehindFailedTransfer ==
    /\ worker = "sleep"
    /\ downloadQueue # <<>>
    /\ hostFailed # {}
    /\ Len(callLog) < Len(enqLog)

\* C6: host download calls are issued in the order of the enqueues.
FifoOrder ==
    /\ Len(callLog) <= Len(enqLog)
    /\ callLog = SubSeq(enqLog, 1, Len(callLog))

\* two transfers were called while a third, enqueued meanwhile, waits
CalledInOrderWhileQueued ==
    /\ Len(callLog) = 2
    /\ Len(downloadQueue) = 1
    /\ worker = "download"

\* C7: a transfer the background starts after an earlier one starts only
\* once a full spacing wait has elapsed since that earlier start.
SpacingBetweenStarts ==
    [][(nStarts' > nStarts /\ nStarts > 0) =>
          \/ gap = "done"
          \/ gap = "running" /\ worker = "sleep" /\ worker' = "download"]_vars

\* C8: once a run is over and everything has settled, it has counted as
\* downloaded no more candidates than those a transfer was captured for
\* (a file saved, or a host download call made).
DownloadedOnlyWhenCaptured ==
    \A r \in RunIds :
        (runs[r].pc = "done" /\ Quiescent) =>
            runs[r].downloaded <= Cardinality(saved \cup hostFailed)

\* C9: once a run is over and everything has settled, its failed count
\* includes every candidate whose host download call reported an error
\* and for whom no file was saved.
HostErrorCountedFailed ==
    \A r \in RunIds :
        (runs[r].pc = "done" /\ Quiescent) =>
            Cardinality(hostFailed \ saved) <= runs[r].failed

\* C10: a run started by Resume selects no candidate that was processed
\* before the Stop.
ResumeSkipsProcessed ==
    \A r \in RunIds : runs[r].selected \cap runs[r].resumedAfter = {}

Digits == {"0", "1", "2", "3", "4", "5", "6", "7", "8", "9"}

\* YYYY-MM-DD
IsDate(d) ==
    /\ Len(d) = 10
    /\ \A k \in 1..10 : IF k \in {5, 8} THEN d[k] = "-" ELSE d[k] \in Digits

\* f reads <S>_Resume_<YYYY-MM-DD>.pdf, S being 1 to 80 safe characters
WellFormedFilename(f) ==
    LET tailLen == Len(ResumeTag) + 10 + Len(PdfExt)
        S == SubSeq(f, 1, Len(f) - tailLen)
    IN /\ Len(f) > tailLen
       /\ Len(S) \in 1..NameLimit
       /\ \A k \in DOMAIN S : S[k] \in WordOrHyphen
       /\ SubSeq(f, Len(S) + 1, Len(S) + Len(ResumeTag)) = ResumeTag
       /\ IsDate(SubSeq(f, Len(S) + Len(ResumeTag) + 1, Len(f) - Len(PdfExt)))
       /\ SubSeq(f, Len(f) - Len(PdfExt) + 1, Len(f)) = PdfExt

\* the S of a well-formed file name
SafePart(f) == SubSeq(f, 1, Len(f) - (Len(ResumeTag) + 10 + Len(PdfExt)))

\* what trimming, collapsing and stripping leave of a name
Sanitised(name) == SelectSeq(CollapseWhitespace(Trim(name)),
                             LAMBDA c : c \in WordOrHyphen)

\* C11 (as stated): every file name built is <S>_Resume_<YYYY-MM-DD>.pdf with
\* S 1 to 80 safe characters, and S is Unknown_Candidate exactly when
\* sanitisation leaves nothing of the name.
FilenamePlaceholderExactly ==
    \A k \in DOMAIN filenames :
        /\ WellFormedFilename(filenames[k])
        /\ (SafePart(filenames[k]) = Placeholder)
              <=> (Sanitised(candidateNames[k]) = <<>>)

\* C11 (amended): every file name built is <S>_Resume_<YYYY-MM-DD>.pdf with
\* S 1 to 80 safe characters; S is Unknown_Candidate when sanitisation
\* leaves nothing, and otherwise the first 80 characters of what it leaves
\* (which for a name reading "Unknown Candidate" is the placeholder's text too).
FilenameWellFormed ==
    \A k \in DOMAIN filenames :
        /\ WellFormedFilename(filenames[k])
        /\ Sanitised(candidateNames[k]) = <<>>
              => SafePart(filenames[k]) = Placeholder
        /\ Sanitised(candidateNames[k]) # <<>>
              => /\ SafePart(filenames[k]) =
                       SubSeq(Sanitised(candidateNames[k]), 1,
                              Len(SafePart(filenames[k])))
                 /\ \/ Len(SafePart(filenames[k])) = NameLimit
                    \/ SafePart(filenames[k]) = Sanitised(candidateNames[k])

\* a name of more than 80 characters with unsafe ones among them was cut to
\* 80 safe characters
LongNameCut ==
    \E k \in DOMAIN filenames :
        /\ Len(candidateNames[k]) > NameLimit
        /\ \E j \in DOMAIN candidateNames[k] :
               candidateNames[k][j] \notin WordOrHyphen
        /\ Len(SafePart(filenames[k])) = NameLimit

\* C12: two different candidate names never get the same file name on the
\* same date.
FilenamesUnique ==
    \A j, k \in DOMAIN filenames :
        candidateNames[j] # candidateNames[k] => filenames[j] # filenames[k]

\* the elements answering a query the scan made
Matched == {n \in Nodes : dom.marks[n] \cap strategyCalls # {}}

\* C13: after a scan no returned element contains another returned element,
\* and of two matching elements one inside the other the outer one is not
\* returned while every innermost matching element is.
InnermostMatchesOnly ==
    strategyCalls # {} =>
        /\ \A a, b \in Range(applicantCards) :
               a # b => ~Contains(dom, a, b)
        /\ \A a, b \in Matched :
               (a # b /\ Contains(dom, a, b)) => a \notin Range(applicantCards)
        /\ \A b \in Matched :
               (\A c \in Matched : Contains(dom, b, c) => c = b)
                  => b \in Range(applicantCards)

\* C14: when the attribute query finds at least one element, no other
\* query is made and only its elements are returned.
CascadeShortCircuits ==
    (strategyCalls # {} /\ Matching(dom, "attribute") # <<>>) =>
        /\ strategyCalls = {"attribute"}
        /\ Range(applicantCards) \subseteq Range(Matching(dom, "attribute"))

\* C15: no message sent while its receiver is absent raises an unhandled
\* rejection.
NoUnhandledRejection == ~unhandled

\* C16: a run that is not cancelled finishes, whichever controls are missing,
\* and emits exactly one DONE, which carries counters that account for every
\* candidate of the list.
UncancelledRunFinishesOnce ==
    /\ [](\A r \in RunIds :
            /\ runs[r].doneEvents <= 1
            /\ runs[r].pc = "done" =>
                  /\ runs[r].doneEvents = 1
                  /\ runs[r].downloaded + runs[r].failed = runs[r].total)
    /\ \A r \in RunIds : (runs[r].pc # "idle") ~> (runs[r].pc = "done")

\* a finished run that skipped a candidate for a control it did not find and
\* downloaded another
FinishedDespiteMissingControl ==
    \E r \in RunIds :
        /\ runs[r].pc = "done"
        /\ runs[r].threw = {}
        /\ runs[r].failed >= 1
        /\ runs[r].downloaded >= 1

\* C17: the delay waited between finishing one candidate and selecting the
\* next is at least 5 and at most 15 seconds.
DelayBetweenFiveAndFifteenSeconds ==
    \A r \in RunIds :
        runs[r].pc = "delay" =>
            /\ runs[r].timer >= 5 * 1000
            /\ runs[r].timer <= 15 * 1000

\* the download trigger is found and extractPdfUrl finds no URL
NoUrlFound(r) ==
    /\ runs[r].pc = "previewing"
    /\ Len(chan') > Len(chan)
    /\ runs'[r].pc # "fetching"

\* downloadViaFetch of the URL resolved before any click returns false
DirectTransferFails(r) ==
    /\ runs[r].pc = "fetching"
    /\ currentFilename # runs[r].cand
    /\ Len(chan') > Len(chan)

\* the next step is the click on the download trigger, the hook armed afresh
ClicksWithHookArmed(r) ==
    /\ runs'[r].pc = "clicking"
    /\ currentFilename' = runs[r].cand
    /\ interceptedUrl' = NoCand
    /\ ~mainWorldDownloaded'

\* after the click nothing is transferred by the page: the candidate is left
\* to the tab watcher armed by EXPECT_PDF_TAB
ReliesOnTabWatcher(r) ==
    /\ runs[r].pc = "awaitIntercept"
    /\ runs'[r].pc = "closing"
    /\ ~mainWorldDownloaded

InterceptStateFromOwnClick ==
    [][\A r \in RunIds :
          runs[r].pc = "awaitIntercept" =>
              /\ runs'[r].pc # "awaitIntercept" =>
                    interceptedUrl \in {NoCand, runs[r].cand}
              /\ (~mainWorldDownloaded /\ mainWorldDownloaded') =>
                    Head(mwMsgs).url = runs[r].cand]_vars

\* C20: the worker's lifecycle. isProcessingQueue is set exactly while the
\* loop of processQueue is active, so that no second loop starts; at most one
\* transfer of the queue is awaited; an item waits only while the worker is
\* active; an enqueue that finds the worker idle starts it; the worker ends
\* when, and only when, it finds the queue empty.
WorkerLifecycle ==
    /\ [](/\ isProcessingQueue <=> worker # "idle"
          /\ Cardinality({d \in inflight : d.src = "queue"})
                 = (IF worker = "download" THEN 1 ELSE 0)
          /\ downloadQueue # <<>> => worker # "idle")
    /\ [][/\ (worker = "idle" /\ nextId' # nextId) => worker' = "download"
          /\ (worker = "sleep" /\ worker' # "sleep") =>
                 (worker' = "idle" <=> downloadQueue = <<>>)]_vars

\* the worker has ended after serving every item of two enqueued
WorkerEndedAfterQueue ==
    /\ worker = "idle"
    /\ ~isProcessingQueue
    /\ downloadQueue = <<>>
    /\ Len(callLog) >= 2
    /\ Len(enqLog) = Len(callLog)

\* C21: once the timeout of the watch armed last has expired, no watch is
\* pending, and until EXPECT_PDF_TAB arms a new one no tab that is created or
\* updated is captured.
ExpiredWatchAbandoned ==
    /\ [](watchExpired => pendingPdfDownload = NoWatch)
    /\ [][(watchExpired /\ watchExpired') =>
              {c.watch : c \in captures'} \subseteq {c.watch : c \in captures}]_vars

\* the watch has expired, a tab was opened and nothing was ever captured
TabAfterExpiredWatch ==
    /\ watchExpired
    /\ nTabs >= 1
    /\ nStarts = 0
    /\ captures = {}
    /\ saved = {}

\* the orchestrator has started a transfer for candidate c: a direct fetch,
\* a hand-off to the background, or a click the page answered by window.open
TransferStartedFor(r, c) ==
    \/ runs[r].pc = "fetching" /\ runs[r].cand = c
    \/ runs[r].url = c
    \/ mwFetches[c] > 0
    \/ \E k \in 1..Len(mwMsgs) : mwMsgs[k].url = c
    \/ \E k \in 1..Len(chan) :
          chan[k].type = "DOWNLOAD_RESUME" /\ chan[k].candidateName = c

\* C22: an attempt that fails once the preview was triggered (no download
\* trigger, or an exception) goes on to close the preview, the candidate
\* counted failed and still the current one, and the orchestrator has started
\* no transfer for it.
FailedAttemptClosesPreview ==
    /\ [](\A r \in RunIds :
            runs[r].pc \in {"failClose", "errClose"} =>
                ~TransferStartedFor(r, runs[r].cand))
    /\ [][\A r \in RunIds :
            (/\ runs[r].pc \in {"previewing", "clicking"}
             /\ runs'[r].failed # runs[r].failed) =>
                /\ runs'[r].pc \in {"failClose", "errClose"}
                /\ runs'[r].cand = runs[r].cand
                /\ runs'[r].failed = runs[r].failed + 1
                /\ runs'[r].downloaded = runs[r].downloaded]_vars

\* an exception after the hook was armed for the candidate: the preview is
\* about to be closed
ClosingAfterException ==
    \E r \in RunIds :
        /\ runs[r].pc = "errClose"
        /\ runs[r].cand \in runs[r].threw
        /\ currentFilename = runs[r].cand

\* RunState reports the counters of run and whether it is still running
Reports(st, run) ==
    /\ st.downloaded = run.downloaded
    /\ st.total = run.total
    /\ st.failed = run.failed
    /\ st.running = (run.pc # "done")

\* C23: once the background has handled a PROGRESS, DOWNLOAD_ERROR or DONE,
\* the RunState it reports on GET_STATE holds the counters the orchestrator
\* that sent the event had when it sent it, and whether it still runs.
RunStateReportsCounters ==
    [][\A r \in RunIds :
          runs'[r] # runs[r] =>
              LET msgs == Emitted(runs[r], runs'[r])
              IN \A k \in 1..Len(msgs) :
                     msgs[k].type \in {"PROGRESS", "DOWNLOAD_ERROR", "DONE"} =>
                         Reports(OnRelayAll(downloadState,
                                            SubSeq(msgs, 1, k)),
                                 [runs'[r] EXCEPT !.pc =
                                      IF msgs[k].type = "DONE"
                                      THEN "done" ELSE "running"])]_vars

\* C24: RunState is reset at the start of a run. When DOWNLOAD_STARTED of a
\* run that starts while no other run is active has been handled, running is
\* set, the counters are 0, the total is the one announced, no last
\* candidate is recorded and the log holds no line of an earlier run.
RunStateResetAtStart ==
    [][\A r \in RunIds :
          (/\ runs[r].pc = "idle"
           /\ runs'[r].pc # "idle"
           /\ \A x \in RunIds : runs[x].pc \in {"idle", "done"}) =>
              LET st == OnRelay(downloadState,
                                Head(Emitted(runs[r], runs'[r])))
              IN /\ st.running
                 /\ st.downloaded = 0
                 /\ st.failed = 0
                 /\ st.total = runs'[r].total
                 /\ st.lastCandidate = NoCand
                 /\ st.logs = << <<"started">> >>]_vars

\* C25: the log of RunState never holds more than 50 lines, and it holds the
\* most recent lines pushed since it was last emptied, up to 50 of them, in
\* the order they arrived.
LogHoldsMostRecentLines ==
    LET n == Len(arrived)
    IN /\ Len(downloadState.logs) <= 50
       /\ downloadState.logs =
              SubSeq(arrived, (IF n > 50 THEN n - 50 ELSE 0) + 1, n)

\* more than 50 lines arrived: the oldest were dropped
OldestLinesDropped ==
    /\ Len(arrived) > 50
    /\ Len(downloadState.logs) = 50
    /\ downloadState.logs[50] = arrived[Len(arrived)]

\* ---- C26 ------------------------------------------------------------------
\* the strategy, in the stated order, an element's URL passes the filter of;
\* the set is empty when it passes none
PassingStrategies(e) ==
    {s \in 1..5 :
        \/ s = 1 /\ e.tag = "iframe" /\ e.url \cap FileMarkers # {}
        \/ s = 2 /\ e.tag = "embed"
                 /\ e.url \cap {".pdf", "mediaauth", "resume"} # {}
        \/ s = 3 /\ e.tag = "object"
                 /\ e.url \cap {".pdf", "mediaauth", "resume"} # {}
        \/ s = 4 /\ e.tag = "a" /\ e.inModal
                 /\ e.url \cap {".pdf", "mediaauth", "dms/"} # {}
        \/ s = 5 /\ e.tag = "a" /\ e.url \cap {".pdf", "mediaauth"} # {}
                 /\ e.url \cap NavMarkers = {}}

\* the first URL, in strategy order and then document order, that passes
FirstPassing(p) ==
    LET hits == {<<s, k>> \in (1..5) \X DOMAIN p :
                    s \in PassingStrategies(p[k])}
    IN IF hits = {} THEN NoUrl
       ELSE (CHOOSE h \in hits :
                \A g \in hits :
                    h[1] < g[1] \/ (h[1] = g[1] /\ h[2] <= g[2]))[2]

\* C26: the file-URL resolution never returns a navigation URL: the URL it
\* returns carries none of the markers /hiring/, /jobs/, /in/, whichever
\* strategy matched, and it is the first URL, in the strategy order, that
\* passes its strategy's filter.
ResolutionNeverNavigationUrl ==
    pdfUrl # NotCalled =>
        /\ pdfUrl = FirstPassing(preview)
        /\ pdfUrl # NoUrl => preview[pdfUrl].url \cap NavMarkers = {}

AtMostOneFilePerCandidate ==
    nRuns <= 1 => \A c \in Cands : saves[c] <= 1

\* ---- C29 ------------------------------------------------------------------
\* the captures a step starts
Started == {c \in captures' : c.watch \notin {x.watch : x \in captures}}

\* C29: each arming of the tab watch captures at most one tab: a capture is
\* started only for the watch armed at that moment and the same step disarms
\* the watch, so that further tab events (the update of the same tab, a second
\* new tab) start no other capture for it; the capture carries the name of
\* the candidate armed last, and neither the source tab nor a blank URL is
\* ever captured.
ArmingCapturesAtMostOneTab ==
    /\ [](\A c \in captures :
             /\ c.tab # SourceTab
             /\ c.url # "blank"
             /\ \A x \in captures : x.watch = c.watch => x.tab = c.tab)
    /\ [][\A c \in Started :
             /\ pendingPdfDownload # NoWatch
             /\ c.watch = pendingPdfDownload.timeoutId
             /\ c.cand = pendingPdfDownload.candidateName
             /\ pendingPdfDownload' = NoWatch
             /\ Cardinality(Started) = 1]_vars

\* two new tabs were opened under one arming, re-armed by nothing, and one
\* of them is being captured
SecondTabNotCaptured ==
    /\ nWatches = 1
    /\ nTabs = 2
    /\ \E c \in captures : c.tab = 1 /\ c.call = 0
    /\ pendingPdfDownload = NoWatch

\* ---- C30 ------------------------------------------------------------------
\* C30: the page's and the background's file name builders agree and are
\* stable under re-sanitisation: for every name, on the same day,
\* buildDownloadFilename(name) = buildFilename(name)
\*                              = buildFilename(sanitiseName(name)).
BuildersAgree ==
    /\ Len(filenames) >= 2 => filenames[2] = filenames[1]
    /\ Len(filenames) >= 3 => filenames[3] = filenames[1]

\* a name sanitising changes (whitespace, punctuation or the cut) went
\* through all three
SanitisedNameSameFile ==
    /\ Len(filenames) = 3
    /\ candidateNames[3] # candidateNames[1]
    /\ candidateNames[3] # Placeholder
    /\ filenames[3] = filenames[1]

==============================================================================
